---- MODULE Spec2Model ----
(***************************************************************************)
(* A model of process-memory-reader: the byte reader and the typed         *)
(* decoders (src/src/lib.rs, src/src/windows.rs, src/src/linux.rs), the    *)
(* process opener and enumerator of both backends, and the module resolver *)
(* of the handle-based backend.                                            *)
(*                                                                         *)
(* The operating system is the environment: the target's memory, the       *)
(* process snapshot, the /proc listing and the module list are chosen in   *)
(* the initial state, and the outcome of each OS call is drawn from what   *)
(* that OS call can report.                                                *)
(***************************************************************************)
EXTENDS Integers, Sequences, FiniteSets

VARIABLES
    impl,       \* the backend compiled in: "windows" (handle-based; lib.rs's
                \* Process is the same code) or "linux" (syscall-based)
    mem,        \* the target's memory: mapped address -> byte
    pc,         \* "idle", "read_string" (inside its loop), "done"
    op,         \* the operation called last
    address,    \* its address argument
    len,        \* buffer.len() of the read_bytes call made last
    index,      \* read_string's index
    buffer,     \* read_string's buffer (the accumulated bytes)
    result,     \* what the operation returned
    osLog,      \* the OS read calls the operation made, in order
    snapshot,   \* handle-based: the entries of the process snapshot, in order
    procfs,     \* syscall-based: the entries of /proc, in order
    modules,    \* handle-based: the modules loaded in the target, in order
    handles,    \* the kernel handles OpenProcess returned that are open
    closes,     \* handle -> how many times CloseHandle was called on it
    live,       \* the process values the caller holds
    procOp,     \* the opener, enumerator or resolver call made last
    procRet     \* what it returned

readVars == <<mem, pc, op, address, len, index, buffer, result, osLog>>

osVars == <<snapshot, procfs, modules>>

procVars == <<handles, closes, live, procOp, procRet>>

vars == <<impl, readVars, osVars, procVars>>

----------------------------------------------------------------------------
(* Bounds and sample sets.                                                 *)

MemSize == 3
MaxLen == 2
MaxProcs == 3
MaxHandles == 3
MaxEntries == 2
MaxModules == 3

Byte == 0 .. 255
\* 65 is ASCII, 195 169 is a two-byte UTF-8 sequence, 169 or 195 alone is not UTF-8
SampleBytes == {0, 1, 65, 169, 195}
Addrs == 0 .. (MemSize - 1)
Impls == {"windows", "linux"}
Errnos == {"EFAULT", "ESRCH"}
\* the memories: some of the addresses mapped, a sample byte at each
Memories == UNION {[D -> SampleBytes] : D \in SUBSET Addrs}

NoResult == [kind |-> "None", address |-> -1, expected |-> -1, actual |-> -1,
             cause |-> "", value |-> <<>>]

NoCall == [name |-> "none", pid |-> 0, arg |-> <<>>, listOk |-> TRUE,
           examined |-> <<>>]
NoRet == [kind |-> "None", value |-> <<>>]

\* the opener, the enumerator and the resolver at rest
ProcIdle ==
    /\ handles = {}
    /\ closes = <<>>
    /\ live = <<>>
    /\ procOp = NoCall
    /\ procRet = NoRet

\* the byte reader at rest
ReadIdle ==
    /\ pc = "idle"
    /\ op = "none"
    /\ address = 0
    /\ len = 0
    /\ index = 0
    /\ buffer = <<>>
    /\ result = NoResult
    /\ osLog = <<>>

----------------------------------------------------------------------------
(* The error model.                                                        *)

Ok(v) == [NoResult EXCEPT !.kind = "Ok", !.value = v]

InaccessibleMemoryAddress(a) ==
    [NoResult EXCEPT !.kind = "InaccessibleMemoryAddress", !.address = a]

LessBytesRead(e, a) ==
    [NoResult EXCEPT !.kind = "LessBytesRead", !.expected = e, !.actual = a]

IOError(c) == [NoResult EXCEPT !.kind = "IOError", !.cause = c]

IsErr(r) == r.kind \in {"InaccessibleMemoryAddress", "LessBytesRead", "IOError"}

----------------------------------------------------------------------------
(* The OS memory-read call (ReadProcessMemory, process_vm_readv).          *)

Mapped(a) == a \in DOMAIN mem

RECURSIVE MappedRun(_, _)
\* how many of the n bytes at a, a+1, ... are mapped before the first unmapped one
MappedRun(a, n) ==
    IF n = 0 \/ ~Mapped(a) THEN 0 ELSE 1 + MappedRun(a + 1, n - 1)

\* What one call for n bytes at a can report: all n bytes when all are mapped;
\* otherwise a failure with an error code, or a transfer that stopped short.
OSOutcomes(a, n) ==
    IF MappedRun(a, n) = n
    THEN {[ok |-> TRUE, count |-> n, errno |-> ""]}
    ELSE [ok : {FALSE}, count : {0}, errno : Errnos]
         \cup [ok : {TRUE}, count : 0 .. MappedRun(a, n), errno : {""}]

\* the caller's buffer after the call: the bytes transferred, the rest still 0
OSBuffer(a, n, o) ==
    [i \in 1 .. n |-> IF o.ok /\ i <= o.count THEN mem[a + i - 1] ELSE 0]

OSCall(a, n, o) == [address |-> a, len |-> n, ok |-> o.ok, count |-> o.count,
                    errno |-> o.errno]

----------------------------------------------------------------------------
(* read_bytes, per implementation.                                         *)

\* WindowsReadBytes without the comparison of the count with buffer.len()
WindowsReadBytesNoCount(a, n, o) ==
    IF ~o.ok THEN InaccessibleMemoryAddress(a)
    ELSE Ok(OSBuffer(a, n, o))

WindowsReadBytes(a, n, o) ==
    IF ~o.ok THEN InaccessibleMemoryAddress(a)
    ELSE IF o.count # n THEN LessBytesRead(n, o.count)
    ELSE Ok(OSBuffer(a, n, o))

\* LinuxReadBytes reporting a failed call the way the handle-based backend does
LinuxReadBytesInaccessible(a, n, o) ==
    IF ~o.ok THEN InaccessibleMemoryAddress(a)
    ELSE IF o.count # n THEN LessBytesRead(n, o.count)
    ELSE Ok(OSBuffer(a, n, o))

LinuxReadBytes(a, n, o) ==
    IF ~o.ok THEN IOError(o.errno)
    ELSE IF o.count # n THEN LessBytesRead(n, o.count)
    ELSE Ok(OSBuffer(a, n, o))

ReadBytesResult(a, n, o) ==
    IF impl = "linux" THEN LinuxReadBytes(a, n, o) ELSE WindowsReadBytes(a, n, o)

read_bytes(a, n) ==
    /\ pc # "read_string"
    /\ \E o \in OSOutcomes(a, n) :
          /\ result' = ReadBytesResult(a, n, o)
          /\ osLog' = <<OSCall(a, n, o)>>
    /\ op' = "read_bytes"
    /\ address' = a
    /\ len' = n
    /\ pc' = "done"
    /\ UNCHANGED <<impl, mem, index, buffer, osVars, procVars>>

----------------------------------------------------------------------------
(* The typed decoders.                                                     *)

\* read_u8 on top of a one-byte read_bytes whose outcome was o
ReadU8Result(a, o) ==
    LET r == ReadBytesResult(a, 1, o)
    IN  IF IsErr(r) THEN r ELSE Ok(r.value[1])

read_u8(a) ==
    /\ pc # "read_string"
    /\ \E o \in OSOutcomes(a, 1) :
          /\ result' = ReadU8Result(a, o)
          /\ osLog' = <<OSCall(a, 1, o)>>
    /\ op' = "read_u8"
    /\ address' = a
    /\ len' = 1
    /\ pc' = "done"
    /\ UNCHANGED <<impl, mem, index, buffer, osVars, procVars>>

\* BoolOfByte taking every nonzero byte for true
BoolOfByteNonzero(b) == b # 0

BoolOfByte(b) == b = 1

ReadBoolResult(a, o) ==
    LET r == ReadU8Result(a, o)
    IN  IF IsErr(r) THEN r ELSE Ok(BoolOfByte(r.value))

read_bool(a) ==
    /\ pc # "read_string"
    /\ \E o \in OSOutcomes(a, 1) :
          /\ result' = ReadBoolResult(a, o)
          /\ osLog' = <<OSCall(a, 1, o)>>
    /\ op' = "read_bool"
    /\ address' = a
    /\ len' = 1
    /\ pc' = "done"
    /\ UNCHANGED <<impl, mem, index, buffer, osVars, procVars>>

\* String::from_utf8's test: well-formed UTF-8
IsCont(b) == b >= 128 /\ b <= 191

RECURSIVE Utf8Valid(_)
Utf8Valid(s) ==
    IF s = <<>> THEN TRUE
    ELSE LET b  == s[1]
             n  == Len(s)
             c2 == n >= 2 /\ IsCont(s[2])
             c3 == n >= 3 /\ IsCont(s[3])
             c4 == n >= 4 /\ IsCont(s[4])
         IN  IF b <= 127 THEN Utf8Valid(Tail(s))
             ELSE IF b >= 194 /\ b <= 223
                  THEN c2 /\ Utf8Valid(SubSeq(s, 3, n))
             ELSE IF b >= 224 /\ b <= 239
                  THEN /\ c2 /\ c3
                       /\ (b = 224 => s[2] >= 160)
                       /\ (b = 237 => s[2] <= 159)
                       /\ Utf8Valid(SubSeq(s, 4, n))
             ELSE IF b >= 240 /\ b <= 244
                  THEN /\ c2 /\ c3 /\ c4
                       /\ (b = 240 => s[2] >= 144)
                       /\ (b = 244 => s[2] <= 143)
                       /\ Utf8Valid(SubSeq(s, 5, n))
             ELSE FALSE

\* String::from_utf8(buffer).unwrap_or(String::from(""))
StringOfBytes(b) == IF Utf8Valid(b) THEN b ELSE <<>>

\* VecInsert always inserting at the front
VecInsertFront(b, i, ch) == <<ch>> \o b

\* buffer.insert(index, ch): ch goes in front of the element at index
VecInsert(b, i, ch) == SubSeq(b, 1, i) \o <<ch>> \o SubSeq(b, i + 1, Len(b))

read_string_call(a) ==
    /\ pc # "read_string"
    /\ pc' = "read_string"
    /\ op' = "read_string"
    /\ address' = a
    /\ index' = 0
    /\ buffer' = <<>>
    /\ osLog' = <<>>
    /\ result' = NoResult
    /\ len' = 1
    /\ UNCHANGED <<impl, mem, osVars, procVars>>

\* one turn of read_string's loop, and its return when the loop ends
read_string_loop ==
    /\ pc = "read_string"
    /\ \E o \in OSOutcomes(address + index, 1) :
          LET ch == ReadU8Result(address + index, o)
          IN  /\ osLog' = Append(osLog, OSCall(address + index, 1, o))
              /\ IF IsErr(ch)
                 THEN /\ result' = ch
                      /\ pc' = "done"
                      /\ UNCHANGED <<index, buffer>>
                 ELSE IF ch.value = 0
                 THEN /\ result' = Ok(StringOfBytes(buffer))
                      /\ pc' = "done"
                      /\ UNCHANGED <<index, buffer>>
                 ELSE /\ buffer' = VecInsert(buffer, index, ch.value)
                      /\ index' = index + 1
                      /\ UNCHANGED <<result, pc>>
    /\ UNCHANGED <<impl, mem, op, address, len, osVars, procVars>>

----------------------------------------------------------------------------
(* The byte reader and the typed decoders over a sampled memory.           *)

InitRead ==
    /\ impl \in Impls
    /\ mem \in Memories
    /\ ReadIdle
    /\ snapshot = <<>> /\ procfs = <<>> /\ modules = <<>>
    /\ ProcIdle

NextRead ==
    \/ \E a \in Addrs, n \in 0 .. MaxLen : read_bytes(a, n)
    \/ \E a \in Addrs : read_u8(a)
    \/ \E a \in Addrs : read_bool(a)
    \/ \E a \in Addrs : read_string_call(a)
    \/ read_string_loop

SpecRead == InitRead /\ [][NextRead]_vars

----------------------------------------------------------------------------
(* The one-byte decoders over every byte value at address 0.               *)

InitBool ==
    /\ impl \in Impls
    /\ mem \in {[a \in D |-> IF a = 0 THEN b ELSE 1] : b \in Byte, D \in SUBSET Addrs}
    /\ ReadIdle
    /\ snapshot = <<>> /\ procfs = <<>> /\ modules = <<>>
    /\ ProcIdle

NextBool ==
    \/ \E a \in Addrs : read_u8(a)
    \/ \E a \in Addrs : read_bool(a)

SpecBool == InitBool /\ [][NextBool]_vars

----------------------------------------------------------------------------
(* Claims about the byte reader and the typed decoders.                    *)

\* C1: read_bytes makes one OS read call for buffer.len() bytes at the address;
\* it returns Ok exactly when that call succeeded and reported buffer.len() bytes
\* (and then the buffer holds that many bytes); a successful call reporting another
\* count gives LessBytesRead with expected = buffer.len() and actual = the count;
\* a failed call gives an error.
C1_ReadBytesExactOrError ==
    (op = "read_bytes" /\ pc = "done") =>
        /\ Len(osLog) = 1
        /\ osLog[1].address = address
        /\ osLog[1].len = len
        /\ (result.kind = "Ok") <=> (osLog[1].ok /\ osLog[1].count = len)
        /\ result.kind = "Ok" =>
              /\ Len(result.value) = len
              /\ \A i \in 1 .. len : result.value[i] = mem[address + i - 1]
        /\ (osLog[1].ok /\ osLog[1].count # len) =>
              result = LessBytesRead(len, osLog[1].count)
        /\ ~osLog[1].ok => IsErr(result)
        /\ result.kind # "None"

\* a short read: the call succeeded with fewer bytes than asked for
C1_Witness ==
    /\ op = "read_bytes" /\ pc = "done"
    /\ osLog[1].ok /\ osLog[1].count = 1 /\ len = 2
    /\ result.kind = "LessBytesRead"

\* C7 as stated: on every implementation a failed OS read call gives
\* InaccessibleMemoryAddress with the requested address, and IOError is never
\* the result of a memory read.
C7_FailedCallIsInaccessible ==
    (op = "read_bytes" /\ pc = "done") =>
        /\ ~osLog[1].ok => result = InaccessibleMemoryAddress(address)
        /\ result.kind # "IOError"

\* C7 as amended: a failed OS read call gives InaccessibleMemoryAddress with the
\* requested address on the handle-based implementations and IOError with the
\* OS error on the syscall-based one; IOError comes from a failed call on the
\* syscall-based implementation only.
C7_FailedCallPerBackend ==
    (op = "read_bytes" /\ pc = "done") =>
        /\ (~osLog[1].ok /\ impl # "linux") =>
              result = InaccessibleMemoryAddress(address)
        /\ (~osLog[1].ok /\ impl = "linux") =>
              result = IOError(osLog[1].errno)
        /\ result.kind = "IOError" => (impl = "linux" /\ ~osLog[1].ok)
        /\ result.kind = "InaccessibleMemoryAddress" =>
              (impl # "linux" /\ ~osLog[1].ok)

C7_Witness ==
    /\ op = "read_bytes" /\ pc = "done"
    /\ impl = "linux" /\ ~osLog[1].ok
    /\ result.kind = "IOError" /\ result.cause = "EFAULT"

\* the bytes at a, a+1, ..., a+k-1
MemBytes(a, k) == [j \in 1 .. k |-> mem[a + j - 1]]

\* C9: read_string reads one byte at a time at address, address+1, ... and no
\* byte after the first zero byte; when it returns Ok, a zero byte is at
\* address+k with k nonzero bytes before it, and the result is those k bytes in
\* order when they are UTF-8 and the empty string when they are not (so it is
\* empty when k = 0); and it returns Ok when every read succeeded.
C9_ReadStringUpToZero ==
    (op = "read_string") =>
        /\ \A i \in 1 .. Len(osLog) :
              /\ osLog[i].address = address + i - 1
              /\ osLog[i].len = 1
              /\ i < Len(osLog) => (Mapped(osLog[i].address) /\ mem[osLog[i].address] # 0)
        /\ (pc = "done" /\ result.kind = "Ok") =>
              LET k == Len(osLog) - 1
              IN  /\ k >= 0
                  /\ Mapped(address + k) /\ mem[address + k] = 0
                  /\ \A j \in 0 .. k - 1 : Mapped(address + j) /\ mem[address + j] # 0
                  /\ Utf8Valid(MemBytes(address, k)) =>
                        result.value = MemBytes(address, k)
                  /\ ~Utf8Valid(MemBytes(address, k)) => result.value = <<>>
                  /\ k = 0 => result.value = <<>>
        /\ (pc = "done" /\ \A i \in 1 .. Len(osLog) : osLog[i].ok /\ osLog[i].count = 1) =>
              result.kind = "Ok"

\* a two-byte string of different bytes was read
C9_Witness ==
    /\ op = "read_string" /\ pc = "done" /\ result.kind = "Ok"
    /\ Len(result.value) = 2 /\ result.value[1] # result.value[2]
    /\ Len(osLog) = 3

\* C10: a successful read_bool is true exactly when the byte at the address is 1,
\* and a failed one-byte read gives that read's error.
C10_ReadBoolOnlyOne ==
    (op = "read_bool" /\ pc = "done") =>
        /\ Len(osLog) = 1 /\ osLog[1].address = address /\ osLog[1].len = 1
        /\ (result.kind = "Ok") <=> (osLog[1].ok /\ osLog[1].count = 1)
        /\ result.kind = "Ok" => result.value = (mem[address] = 1)
        /\ result.kind # "Ok" =>
              /\ IsErr(result)
              /\ ~osLog[1].ok =>
                    result = (IF impl = "linux" THEN IOError(osLog[1].errno)
                              ELSE InaccessibleMemoryAddress(address))
              /\ osLog[1].ok => result = LessBytesRead(1, osLog[1].count)

\* a nonzero byte other than 1 read as false
C10_Witness ==
    /\ op = "read_bool" /\ pc = "done"
    /\ result.kind = "Ok" /\ result.value = FALSE /\ mem[address] = 255

----------------------------------------------------------------------------
(* Text: a string is a sequence of characters.                             *)

IsSpace(c) == c = " "

RECURSIVE TrimStart(_)
TrimStart(s) == IF s # <<>> /\ IsSpace(Head(s)) THEN TrimStart(Tail(s)) ELSE s

RECURSIVE TrimEnd(_)
TrimEnd(s) ==
    IF s # <<>> /\ IsSpace(s[Len(s)]) THEN TrimEnd(SubSeq(s, 1, Len(s) - 1)) ELSE s

\* str::trim
Trim(s) == TrimEnd(TrimStart(s))

\* str::ends_with
EndsWith(s, suffix) ==
    /\ Len(suffix) <= Len(s)
    /\ SubSeq(s, Len(s) - Len(suffix) + 1, Len(s)) = suffix

Digits == <<"0", "1", "2", "3", "4", "5", "6", "7", "8", "9">>

IsDigit(c) == \E d \in 1 .. 10 : Digits[d] = c

DigitValue(c) == (CHOOSE d \in 1 .. 10 : Digits[d] = c) - 1

RECURSIVE DecimalValue(_, _)
DecimalValue(s, acc) ==
    IF s = <<>> THEN acc ELSE DecimalValue(Tail(s), 10 * acc + DigitValue(Head(s)))

\* str::parse::<u32>: an optional "+", then one or more decimal digits (the
\* names here are too short to pass 2^32 - 1)
ParseU32(s) ==
    LET body == IF s # <<>> /\ Head(s) = "+" THEN Tail(s) ELSE s
    IN  IF body = <<>> \/ \E i \in 1 .. Len(body) : ~IsDigit(body[i])
        THEN [ok |-> FALSE, value |-> 0]
        ELSE [ok |-> TRUE, value |-> DecimalValue(body, 0)]

\* the directory name of process id p
PidDir(p) == <<Digits[p + 1]>>

SelfDir == <<"s", "e", "l", "f">>

----------------------------------------------------------------------------
(* The operating system's process list.                                    *)

\* executable file names, and the names asked for
ExeNames == {"a.exe", "b.exe"}

\* the i-th snapshot entry is the process with id i
SnapshotEntries(i) == [pid : {i}, exe : ExeNames, openable : BOOLEAN]

Snapshots ==
    UNION {{f \in [1 .. n -> UNION {SnapshotEntries(i) : i \in 1 .. n}] :
              \A i \in 1 .. n : f[i].pid = i} : n \in 0 .. MaxProcs}

\* first lines of a maps file: a mapped path, one followed by white space, another
MapsLines == {<<"/", "a">>, <<"/", "a", " ">>, <<"b">>}

QueryNames == {<<"a">>, <<"b">>}

\* What goes wrong with a /proc entry: nothing, the directory entry itself is an
\* error, its maps file does not open, the first line of the maps file does not read.
Faults == {"none", "entry", "open", "read"}

\* the i-th /proc entry is the directory of process id i, or "self"
ProcfsEntries(i) ==
    {e \in [dir : {PidDir(i), SelfDir}, fault : Faults, line : MapsLines \cup {<<>>}] :
        e.fault # "none" <=> e.line = <<>>}

Procfs ==
    UNION {{f \in [1 .. n -> UNION {ProcfsEntries(i) : i \in 1 .. n}] :
              \A i \in 1 .. n : f[i] \in ProcfsEntries(i)} : n \in 0 .. MaxEntries}

Pids == 1 .. (MaxProcs + 1)

\* OpenProcess gives a handle for pid
Openable(pid) ==
    \E i \in 1 .. Len(snapshot) : snapshot[i].pid = pid /\ snapshot[i].openable

\* /proc holds the directory of process pid
InProcfs(pid) ==
    \E i \in 1 .. Len(procfs) : procfs[i].fault # "entry" /\ procfs[i].dir = PidDir(pid)

----------------------------------------------------------------------------
(* The handle-based backend: open_process, find_by_name, drop.             *)

Null == 0

\* the next handle OpenProcess returns
NextHandle == Len(closes) + 1

WindowsProcess(pid, handle) == [pid |-> pid, handle |-> handle]

Some(v) == [kind |-> "Some", value |-> v]
None == [kind |-> "None", value |-> <<>>]
Vec(v) == [kind |-> "Vec", value |-> v]
OkVec(v) == [kind |-> "Ok", value |-> v]
Err(c) == [kind |-> "Err", value |-> c]
Panic == [kind |-> "Panic", value |-> <<>>]

\* OpenProcess: a new handle, or null
OpenProcess(pid) == IF Openable(pid) THEN NextHandle ELSE Null

windows_open_process(pid) ==
    /\ impl = "windows"
    /\ NextHandle <= MaxHandles
    /\ LET handle == OpenProcess(pid)
       IN  IF handle = Null
           THEN /\ procRet' = None
                /\ UNCHANGED <<handles, closes, live>>
           ELSE /\ procRet' = Some(WindowsProcess(pid, handle))
                /\ handles' = handles \cup {handle}
                /\ closes' = Append(closes, 0)
                /\ live' = Append(live, WindowsProcess(pid, handle))
    /\ procOp' = [NoCall EXCEPT !.name = "open_process", !.pid = pid]
    /\ UNCHANGED <<impl, readVars, osVars>>

\* The entries Process32FirstW and Process32NextW hand to the loop body: the
\* entry Process32FirstW fetched is overwritten by the first Process32NextW.
LoopEntries(entries) == IF entries = <<>> THEN <<>> ELSE Tail(entries)

RECURSIVE WindowsScan(_, _, _)
\* the loop body over the entries: the processes pushed, h the next handle
WindowsScan(entries, name, h) ==
    IF entries = <<>> THEN <<>>
    ELSE LET entry == Head(entries)
         IN  IF entry.exe # name THEN WindowsScan(Tail(entries), name, h)
             ELSE IF ~entry.openable THEN WindowsScan(Tail(entries), name, h)
             ELSE <<WindowsProcess(entry.pid, h)>>
                  \o WindowsScan(Tail(entries), name, h + 1)

RECURSIVE Zeros(_)
Zeros(n) == IF n = 0 THEN <<>> ELSE <<0>> \o Zeros(n - 1)

\* The snapshot handle is created and closed inside the call; a snapshot that
\* cannot be created gives no entries.
windows_find_by_name(name) ==
    /\ impl = "windows"
    /\ \E snapshotOk \in BOOLEAN :
          LET entries == IF snapshotOk THEN LoopEntries(snapshot) ELSE <<>>
              processes == WindowsScan(entries, name, NextHandle)
          IN  /\ NextHandle + Len(processes) - 1 <= MaxHandles
              /\ procRet' = Vec(processes)
              /\ handles' = handles \cup {processes[i].handle : i \in 1 .. Len(processes)}
              /\ closes' = closes \o Zeros(Len(processes))
              /\ live' = live \o processes
              /\ procOp' = [NoCall EXCEPT !.name = "find_by_name", !.arg = name,
                                          !.listOk = snapshotOk,
                                          !.examined = [i \in 1 .. Len(entries) |->
                                                           entries[i].pid]]
    /\ UNCHANGED <<impl, readVars, osVars>>

\* drop without CloseHandle
LeakHandle(handle) == UNCHANGED <<handles, closes>>

\* CloseHandle
CloseHandle(handle) ==
    /\ handles' = handles \ {handle}
    /\ closes' = [closes EXCEPT ![handle] = @ + 1]

RemoveAt(s, i) == SubSeq(s, 1, i - 1) \o SubSeq(s, i + 1, Len(s))

\* the caller's i-th process value goes out of scope
drop(i) ==
    /\ impl = "windows"
    /\ i \in 1 .. Len(live)
    /\ CloseHandle(live[i].handle)
    /\ live' = RemoveAt(live, i)
    /\ procOp' = [NoCall EXCEPT !.name = "drop", !.pid = live[i].pid]
    /\ procRet' = NoRet
    /\ UNCHANGED <<impl, readVars, osVars>>

----------------------------------------------------------------------------
(* The syscall-based backend: open_process, find_by_name.                  *)

LinuxProcess(pid) == [pid |-> pid]

linux_open_process(pid) ==
    /\ impl = "linux"
    /\ procRet' = Some(LinuxProcess(pid))
    /\ procOp' = [NoCall EXCEPT !.name = "open_process", !.pid = pid]
    /\ UNCHANGED <<impl, readVars, osVars, handles, closes, live>>

RECURSIVE LinuxScan(_, _, _)
\* the loop over the entries of /proc, processes the vector so far
LinuxScan(entries, name, processes) ==
    IF entries = <<>> THEN OkVec(processes)
    ELSE LET path == Head(entries)
             rest == Tail(entries)
         IN  IF path.fault = "entry" THEN LinuxScan(rest, name, processes)
             ELSE IF path.fault = "open" THEN LinuxScan(rest, name, processes)
             ELSE IF path.fault = "read" THEN Err("read_line")
             ELSE IF ~EndsWith(Trim(path.line), name)
                  THEN LinuxScan(rest, name, processes)
             ELSE IF ~ParseU32(path.dir).ok THEN Panic
             ELSE LinuxScan(rest, name,
                            Append(processes, LinuxProcess(ParseU32(path.dir).value)))

linux_find_by_name(name) ==
    /\ impl = "linux"
    /\ \E readDirOk \in BOOLEAN :
          /\ procRet' = IF readDirOk THEN LinuxScan(procfs, name, <<>>)
                        ELSE Err("read_dir")
          /\ procOp' = [NoCall EXCEPT !.name = "find_by_name", !.arg = name,
                                      !.listOk = readDirOk]
    /\ UNCHANGED <<impl, readVars, osVars, handles, closes, live>>

----------------------------------------------------------------------------
(* The opener and the enumerator of both backends over a sampled process   *)
(* list.                                                                   *)

Init ==
    /\ impl \in Impls
    /\ IF impl = "windows"
       THEN snapshot \in Snapshots /\ procfs = <<>>
       ELSE snapshot = <<>> /\ procfs \in Procfs
    /\ modules = <<>>
    /\ mem = <<>>
    /\ ReadIdle
    /\ ProcIdle

Next ==
    \/ \E pid \in Pids : windows_open_process(pid)
    \/ \E name \in ExeNames : windows_find_by_name(name)
    \/ \E i \in 1 .. MaxHandles : drop(i)
    \/ \E pid \in Pids : linux_open_process(pid)
    \/ \E name \in QueryNames : linux_find_by_name(name)

Spec == Init /\ [][Next]_vars

----------------------------------------------------------------------------
(* The module resolver of the handle-based backend.                        *)

LowerOf(c) == IF c = "A" THEN "a" ELSE IF c = "B" THEN "b" ELSE IF c = "C" THEN "c" ELSE c

\* str::to_lowercase
ToLowercase(s) == [i \in 1 .. Len(s) |-> LowerOf(s[i])]

\* short base names of modules, and the names asked for
ModuleNames == {<<"a">>, <<"B">>, <<"c">>}

ModuleQueries == {<<"A">>, <<"b">>}

\* the i-th module is loaded at 16 * i; a target always has its main module
ModuleLists ==
    UNION {{f \in [1 .. n -> [base : {16 * i : i \in 1 .. n}, name : ModuleNames]] :
              \A i \in 1 .. n : f[i].base = 16 * i} : n \in 1 .. MaxModules}

\* EnumProcessModules into a buffer of size_of one HMODULE: the handle of the
\* first module of the list is all that fits.
EnumProcessModules(list) == list[1].base

\* GetModuleBaseNameA for the module handle hmod; length 0 when it fails
GetModuleBaseNameA(list, hmod, nameOk) ==
    IF nameOk THEN (CHOOSE m \in {list[i] : i \in 1 .. Len(list)} : m.base = hmod).name
    ELSE <<>>

base_address(module_name) ==
    /\ impl = "windows"
    /\ \E enumOk \in BOOLEAN, nameOk \in BOOLEAN :
          LET hmod == EnumProcessModules(modules)
              base_name == GetModuleBaseNameA(modules, hmod, nameOk)
          IN  /\ procRet' = IF ~enumOk THEN None
                            ELSE IF ToLowercase(base_name) = ToLowercase(module_name)
                            THEN Some(hmod)
                            ELSE None
              /\ procOp' = [NoCall EXCEPT !.name = "base_address", !.arg = module_name,
                                          !.listOk = enumOk,
                                          !.examined = IF enumOk THEN <<base_name>>
                                                       ELSE <<>>]
    /\ UNCHANGED <<impl, readVars, osVars, handles, closes, live>>

InitModules ==
    /\ impl = "windows"
    /\ modules \in ModuleLists
    /\ snapshot = <<>> /\ procfs = <<>>
    /\ mem = <<>>
    /\ ReadIdle
    /\ ProcIdle

NextModules == \E module_name \in ModuleQueries : base_address(module_name)

SpecModules == InitModules /\ [][NextModules]_vars

----------------------------------------------------------------------------
(* Claims about the opener, the enumerator and the resolver.               *)

Owners(h) == {i \in 1 .. Len(live) : live[i].handle = h}

\* C2: on the handle-based backend every handle a successful OpenProcess returned
\* is owned by at most one process value, is open exactly while a process value
\* owns it, was closed exactly once when its owner is gone, and is never closed
\* twice; and every process value holds such a handle.
C2_HandleReleasedOnce ==
    impl = "windows" =>
        /\ \A h \in 1 .. Len(closes) :
              /\ closes[h] <= 1
              /\ Cardinality(Owners(h)) <= 1
              /\ h \in handles <=> Owners(h) # {}
              /\ closes[h] = 1 <=> Owners(h) = {}
        /\ \A i \in 1 .. Len(live) : live[i].handle \in 1 .. Len(closes)
        /\ handles \subseteq 1 .. Len(closes)

\* find_by_name returned two process values, and one of them was dropped since
C2_Witness ==
    /\ impl = "windows"
    /\ procOp.name = "drop"
    /\ Len(closes) >= 2
    /\ \E h \in 1 .. Len(closes) : closes[h] = 1 /\ h \notin handles
    /\ \E h \in 1 .. Len(closes) : closes[h] = 0 /\ h \in handles /\ Owners(h) # {}

\* a running process that can be opened has the id pid
Running(pid) == IF impl = "windows" THEN Openable(pid) ELSE InProcfs(pid)

\* C3: open_process gives a process value only for the id of a running process
\* that can be opened, and nothing for any other id.
C3_OpenAbsentForMissingProcess ==
    procOp.name = "open_process" =>
        /\ procRet.kind = "Some" => Running(procOp.pid)
        /\ ~Running(procOp.pid) => procRet = None

\* the entry of /proc whose first maps line, trimmed, ends with name
LinuxMatch(e, name) == e.fault = "none" /\ EndsWith(Trim(e.line), name)

NoMatch(name) ==
    IF impl = "windows"
    THEN \A i \in 1 .. Len(snapshot) : snapshot[i].exe # name
    ELSE \A i \in 1 .. Len(procfs) : ~LinuxMatch(procfs[i], name)

\* C4: find_by_name never returns an error, and returns an empty sequence when
\* the process list cannot be obtained or no process matches.
C4_FindByNameNeverErr ==
    procOp.name = "find_by_name" =>
        /\ procRet.kind # "Err"
        /\ (~procOp.listOk \/ NoMatch(procOp.arg)) =>
              (procRet.kind \in {"Vec", "Ok"} /\ procRet.value = <<>>)

PidsOf(s) == [i \in 1 .. Len(s) |-> s[i].pid]

WindowsMatch(e, name) == e.exe = name /\ e.openable

\* C5: on the handle-based backend find_by_name examines every entry of the
\* snapshot, the first one included, and returns a process value for every entry
\* whose executable file name is name and that can be opened, in snapshot order.
C5_FindByNameEveryEntry ==
    (impl = "windows" /\ procOp.name = "find_by_name" /\ procOp.listOk) =>
        /\ procOp.examined = PidsOf(snapshot)
        /\ PidsOf(procRet.value)
             = PidsOf(SelectSeq(snapshot, LAMBDA e : WindowsMatch(e, procOp.arg)))

\* the modules whose short base name is name, ignoring case
ModuleMatches(name) ==
    {i \in 1 .. Len(modules) : ToLowercase(modules[i].name) = ToLowercase(name)}

\* C6: on the handle-based backend base_address returns the base address of the
\* first module, at any position of the module list, whose short base name is
\* module_name ignoring case, and nothing only when enumeration fails or no
\* module matches.
C6_BaseAddressAnyModule ==
    (procOp.name = "base_address" /\ procOp.listOk
        /\ procOp.examined = <<modules[1].name>>) =>
        procRet = IF ModuleMatches(procOp.arg) = {} THEN None
                  ELSE Some(modules[CHOOSE i \in ModuleMatches(procOp.arg) :
                               \A j \in ModuleMatches(procOp.arg) : i <= j].base)

\* the entries of /proc that match name and carry a numeric directory name
LinuxFound(name) ==
    SelectSeq(procfs, LAMBDA e : LinuxMatch(e, name) /\ ParseU32(e.dir).ok)

\* C8: on the syscall-based backend find_by_name skips every /proc entry that
\* fails (its maps file does not open, its first line does not read, its
\* directory name is no process id) and processes the others: it returns
\* neither an error nor a panic, and its result is the matching entries left.
C8_SkipsFailingEntries ==
    (impl = "linux" /\ procOp.name = "find_by_name" /\ procOp.listOk) =>
        /\ procRet.kind = "Ok"
        /\ procRet.value = [i \in 1 .. Len(LinuxFound(procOp.arg)) |->
                              LinuxProcess(ParseU32(LinuxFound(procOp.arg)[i].dir).value)]

====
